---------------------------- MODULE Spec2Model ----------------------------
(***************************************************************************)
(* State-machine model of the NFTMarketplace contract                      *)
(* (src/unnamed/part_001) together with the ERC721 collection it queries.  *)
(*                                                                         *)
(* Every external function of the contract is one action.  A call that     *)
(* reverts leaves the contract and the collection untouched and is         *)
(* recorded, like every call, in the variable "last" (function, caller,    *)
(* arguments, error, emitted event, ether paid out), so that properties    *)
(* can speak about the outcome of a call.                                  *)
(***************************************************************************)
EXTENDS Integers, FiniteSets, Sequences, TLC

(***************************************************************************)
(* Bounds of the model.                                                    *)
(***************************************************************************)
MaxPrice   == 1      \* price and newPrice range over 0..MaxPrice
MaxBalance == 2      \* cap on the ether the marketplace holds
MaxDepth   == 2      \* cap on the number of calls suspended in a callback

(***************************************************************************)
(* Identities.                                                             *)
(***************************************************************************)
ZERO         == "address(0)"
MARKET       == "address(this)"
Users        == {"deployer", "user"}
Addresses    == {ZERO, MARKET} \cup Users
NftAddresses == {"basicNft"}
TokenIds     == {0, 1}               \* the minted tokens
Amounts      == 0..MaxPrice
Values       == 0..(MaxPrice + 1)    \* msg.value: below, at and above a price

(***************************************************************************)
(* Outcomes of a call: "OK" or the name of the error it reverted with.     *)
(***************************************************************************)
OK                        == "OK"
PriceMustBeAboveZero      == "NFTMarketplace__priceMustBeAboveZero"
NotApprovedForMarketplace == "NFTMarketplace__notApprovedForMarketplace"
AlreadyListed             == "NFTMarketplace__alreadyListedNftAddress"
NotOwner                  == "NFTMarketplace__NotOwner"
NotListed                 == "NFTMarketplace__NotListed"
PriceNotMet               == "NFTMarketplace__PriceNotMet"
NoProceeds                == "NFTMarketplace__NoProceeds"
TransferFailed            == "NFTMarketplace__TransferFailed"
ERC721Revert              == "ERC721: transfer reverted"
ReentrantCall             == "ReentrancyGuard: reentrant call"
Pending                   == "in callback"   \* the call is inside its external call

VARIABLES
    s_listings,    \* nftAddress -> tokenId -> Listing
    s_proceeds,    \* address -> amount earned
    nftOwner,      \* collection state: nftAddress -> tokenId -> owner
    nftApproved,   \* collection state: nftAddress -> tokenId -> approved address
    balance,       \* ether held by the marketplace contract
    last,          \* record of the most recent call
    stack,         \* calls suspended in the callback of their external call
    emitted        \* nftAddress -> tokenId -> the last event emitted for the item

vars  == <<s_listings, s_proceeds, nftOwner, nftApproved, balance, last, stack,
           emitted>>
store == <<s_listings, s_proceeds, nftOwner, nftApproved, balance>>

(***************************************************************************)
(* struct Listing and the value "delete" resets it to.                     *)
(***************************************************************************)
Listing_noSeller(price, seller) == [price |-> price, seller |-> ZERO]

Listing(price, seller) == [price |-> price, seller |-> seller]

EmptyListing == [price |-> 0, seller |-> ZERO]

(***************************************************************************)
(* Events.                                                                 *)
(***************************************************************************)
NoEvent == [name |-> "none"]

ItemListed(seller, nftAddress, tokenId, price) ==
    [name |-> "ItemListed", who |-> seller, nftAddress |-> nftAddress,
     tokenId |-> tokenId, price |-> price]

ItemBought(buyer, nftAddress, tokenId, price) ==
    [name |-> "ItemBought", who |-> buyer, nftAddress |-> nftAddress,
     tokenId |-> tokenId, price |-> price]

ItemCanceled(seller, nftAddress, tokenId) ==
    [name |-> "ItemCanceled", who |-> seller, nftAddress |-> nftAddress,
     tokenId |-> tokenId]

\* The event log, kept as the last event of each item.  A behaviour that
\* starts with the log NotRecorded keeps no log.
NotRecorded ==
    [a \in NftAddresses |-> [t \in TokenIds |-> [name |-> "not recorded"]]]

emit(event) ==
    IF emitted = NotRecorded \/ event = NoEvent THEN emitted
    ELSE [emitted EXCEPT ![event.nftAddress][event.tokenId] = event]

(***************************************************************************)
(* The collection (IERC721) as the marketplace uses it.                    *)
(***************************************************************************)
ownerOf(nftAddress, tokenId) == nftOwner[nftAddress][tokenId]

getApproved(nftAddress, tokenId) == nftApproved[nftAddress][tokenId]

\* safeTransferFrom(from, to, tokenId) called by the marketplace: it goes
\* through iff the marketplace is approved for the token, "from" is its
\* owner, and the receiver accepts the token.
canTransferFrom(nftAddress, from, to, tokenId, received) ==
    /\ getApproved(nftAddress, tokenId) = MARKET
    /\ ownerOf(nftAddress, tokenId) = from
    /\ to # ZERO
    /\ received

(***************************************************************************)
(* Getters.                                                                *)
(***************************************************************************)
getListing(nftAddress, tokenId) == s_listings[nftAddress][tokenId]

getProceeds(seller) == s_proceeds[seller]

(***************************************************************************)
(* Modifiers: TRUE when the modifier lets the call through.                *)
(***************************************************************************)
notListed_never(nftAddress, tokenId) == TRUE

notListed(nftAddress, tokenId) ==
    LET listing == s_listings[nftAddress][tokenId]
    IN  ~(listing.price > 0)

isOwner_orApproved(nftAddress, tokenId, spender) ==
    \/ spender = ownerOf(nftAddress, tokenId)
    \/ spender = getApproved(nftAddress, tokenId)

isOwner_minter(nftAddress, tokenId, spender) == spender = "deployer"

isOwner(nftAddress, tokenId, spender) ==
    LET owner == ownerOf(nftAddress, tokenId)
    IN  ~(spender # owner)

\* the comparison is "price < 0" on a uint256
isListed(nftAddress, tokenId) ==
    LET listing == s_listings[nftAddress][tokenId]
    IN  ~(listing.price < 0)

(***************************************************************************)
(* Results of a call: the error, the store the call leaves behind, the     *)
(* event it emitted and the ether it paid out.                             *)
(***************************************************************************)
Store == [listings |-> s_listings, proceeds |-> s_proceeds,
          owner |-> nftOwner, approved |-> nftApproved, balance |-> balance]

Revert(error) == [err |-> error, st |-> Store, event |-> NoEvent, paid |-> 0]

Success(st, event, paid) == [err |-> OK, st |-> st, event |-> event, paid |-> paid]

(***************************************************************************)
(* listItem                                                                *)
(***************************************************************************)
approvedForMarketplace_anyone(nftAddress, tokenId) ==
    getApproved(nftAddress, tokenId) # ZERO

approvedForMarketplace(nftAddress, tokenId) ==
    ~(getApproved(nftAddress, tokenId) # MARKET)

listItem(sender, nftAddress, tokenId, price) ==
    IF ~notListed(nftAddress, tokenId) THEN Revert(AlreadyListed)
    ELSE IF ~isOwner(nftAddress, tokenId, sender) THEN Revert(NotOwner)
    ELSE IF price <= 0 THEN Revert(PriceMustBeAboveZero)
    ELSE IF ~approvedForMarketplace(nftAddress, tokenId)
         THEN Revert(NotApprovedForMarketplace)
    ELSE Success(
           [Store EXCEPT !.listings[nftAddress][tokenId] = Listing(price, sender)],
           ItemListed(sender, nftAddress, tokenId, price), 0)

(***************************************************************************)
(* buyItem                                                                 *)
(***************************************************************************)
\* modifier nonReentrant: TRUE while a buyItem call is suspended in the
\* callback of its token transfer
entered == \E i \in DOMAIN stack : stack[i].op = "buyItem"

priceMet_strict(value, listedItem) == ~(value <= listedItem.price)

priceMet(value, listedItem) == ~(value < listedItem.price)

buyCredit_price(value, listedItem) == listedItem.price

\* the amount added to the seller's proceeds
buyCredit(value, listedItem) == value

buyItem_noRollback(sender, nftAddress, tokenId, value, received) ==
    IF entered THEN Revert(ReentrantCall)
    ELSE IF ~isListed(nftAddress, tokenId) THEN Revert(NotListed)
    ELSE
      LET listedItem == s_listings[nftAddress][tokenId] IN
      IF ~priceMet(value, listedItem) THEN Revert(PriceNotMet)
      ELSE IF ~canTransferFrom(nftAddress, listedItem.seller, sender, tokenId, received)
           THEN [err |-> ERC721Revert,
                 st |-> [Store EXCEPT
                           !.proceeds[listedItem.seller] = @ + value,
                           !.listings[nftAddress][tokenId] = EmptyListing],
                 event |-> NoEvent, paid |-> 0]
      ELSE Success(
             [Store EXCEPT
                !.proceeds[listedItem.seller] = @ + buyCredit(value, listedItem),
                !.listings[nftAddress][tokenId] = EmptyListing,
                !.owner[nftAddress][tokenId] = sender,
                !.approved[nftAddress][tokenId] = ZERO,
                !.balance = @ + value],
             ItemBought(sender, nftAddress, tokenId, listedItem.price), 0)

buyItem(sender, nftAddress, tokenId, value, received) ==
    IF entered THEN Revert(ReentrantCall)
    ELSE IF ~isListed(nftAddress, tokenId) THEN Revert(NotListed)
    ELSE
      LET listedItem == s_listings[nftAddress][tokenId] IN
      IF ~priceMet(value, listedItem) THEN Revert(PriceNotMet)
      ELSE IF ~canTransferFrom(nftAddress, listedItem.seller, sender, tokenId, received)
           THEN Revert(ERC721Revert)
      ELSE Success(
             [Store EXCEPT
                !.proceeds[listedItem.seller] = @ + buyCredit(value, listedItem),
                !.listings[nftAddress][tokenId] = EmptyListing,
                !.owner[nftAddress][tokenId] = sender,
                !.approved[nftAddress][tokenId] = ZERO,
                !.balance = @ + value],
             ItemBought(sender, nftAddress, tokenId, listedItem.price), 0)

(***************************************************************************)
(* cancelListing                                                           *)
(***************************************************************************)
cancelListing_wipesCollection(sender, nftAddress, tokenId) ==
    IF ~isOwner(nftAddress, tokenId, sender) THEN Revert(NotOwner)
    ELSE IF ~isListed(nftAddress, tokenId) THEN Revert(NotListed)
    ELSE Success(
           [Store EXCEPT !.listings[nftAddress] = [t \in TokenIds |-> EmptyListing]],
           ItemCanceled(sender, nftAddress, tokenId), 0)

cancelListing(sender, nftAddress, tokenId) ==
    IF ~isOwner(nftAddress, tokenId, sender) THEN Revert(NotOwner)
    ELSE IF ~isListed(nftAddress, tokenId) THEN Revert(NotListed)
    ELSE Success(
           [Store EXCEPT !.listings[nftAddress][tokenId] = EmptyListing],
           ItemCanceled(sender, nftAddress, tokenId), 0)

(***************************************************************************)
(* updateListing                                                           *)
(***************************************************************************)
updateListing(sender, nftAddress, tokenId, newPrice) ==
    IF ~isOwner(nftAddress, tokenId, sender) THEN Revert(NotOwner)
    ELSE IF ~isListed(nftAddress, tokenId) THEN Revert(NotListed)
    ELSE Success(
           [Store EXCEPT !.listings[nftAddress][tokenId].price = newPrice],
           ItemListed(sender, nftAddress, tokenId, newPrice), 0)

(***************************************************************************)
(* withdrawProceeds                                                        *)
(***************************************************************************)
afterWithdraw_kept(proceedsMap, sender) == proceedsMap

afterWithdraw_all(proceedsMap, sender) == [a \in DOMAIN proceedsMap |-> 0]

\* s_proceeds[msg.sender] = 0
afterWithdraw(proceedsMap, sender) == [proceedsMap EXCEPT ![sender] = 0]

withdrawProceeds_noRollback(sender, success) ==
    LET proceeds == s_proceeds[sender] IN
    IF proceeds <= 0 THEN Revert(NoProceeds)
    ELSE IF ~(success /\ balance >= proceeds)
         THEN [err |-> TransferFailed,
               st |-> [Store EXCEPT !.proceeds = afterWithdraw(@, sender)],
               event |-> NoEvent, paid |-> 0]
    ELSE Success(
           [Store EXCEPT !.proceeds = afterWithdraw(@, sender),
                         !.balance = @ - proceeds],
           NoEvent, proceeds)

\* "success" is the result of the low-level call that pays the caller
withdrawProceeds(sender, success) ==
    LET proceeds == s_proceeds[sender] IN
    IF proceeds <= 0 THEN Revert(NoProceeds)
    ELSE IF ~(success /\ balance >= proceeds) THEN Revert(TransferFailed)
    ELSE Success(
           [Store EXCEPT !.proceeds = afterWithdraw(@, sender),
                         !.balance = @ - proceeds],
           NoEvent, proceeds)

(***************************************************************************)
(* Actions.                                                                *)
(***************************************************************************)
\* the seller a successful buyItem bought from (listedItem.seller)
soldBy(op, nftAddress, tokenId, out) ==
    IF op = "buyItem" /\ out.err = OK
    THEN s_listings[nftAddress][tokenId].seller
    ELSE ZERO

Call(op, sender, nftAddress, tokenId, amount, out) ==
    /\ s_listings'  = out.st.listings
    /\ s_proceeds'  = out.st.proceeds
    /\ nftOwner'    = out.st.owner
    /\ nftApproved' = out.st.approved
    /\ balance'     = out.st.balance
    /\ last' = [op |-> op, sender |-> sender, nftAddress |-> nftAddress,
                tokenId |-> tokenId, amount |-> amount,
                err |-> out.err, event |-> out.event, paid |-> out.paid,
                seller |-> soldBy(op, nftAddress, tokenId, out)]
    /\ emitted' = emit(out.event)
    /\ UNCHANGED stack

ListItem ==
    \E sender \in Users, nftAddress \in NftAddresses, tokenId \in TokenIds,
       price \in Amounts :
        Call("listItem", sender, nftAddress, tokenId, price,
             listItem(sender, nftAddress, tokenId, price))

BuyItem ==
    \E sender \in Users, nftAddress \in NftAddresses, tokenId \in TokenIds,
       value \in Values, received \in BOOLEAN :
        /\ balance + value <= MaxBalance
        /\ Call("buyItem", sender, nftAddress, tokenId, value,
                buyItem(sender, nftAddress, tokenId, value, received))

CancelListing ==
    \E sender \in Users, nftAddress \in NftAddresses, tokenId \in TokenIds :
        Call("cancelListing", sender, nftAddress, tokenId, 0,
             cancelListing(sender, nftAddress, tokenId))

UpdateListing ==
    \E sender \in Users, nftAddress \in NftAddresses, tokenId \in TokenIds,
       newPrice \in Amounts :
        Call("updateListing", sender, nftAddress, tokenId, newPrice,
             updateListing(sender, nftAddress, tokenId, newPrice))

WithdrawProceeds ==
    \E sender \in Users, success \in BOOLEAN :
        Call("withdrawProceeds", sender, ZERO, 0, 0,
             withdrawProceeds(sender, success))

\* The owner of a token approves another address for it (IERC721.approve).
Approve ==
    \E nftAddress \in NftAddresses, tokenId \in TokenIds, to \in Addresses :
        /\ to # ownerOf(nftAddress, tokenId)
        /\ nftApproved' = [nftApproved EXCEPT ![nftAddress][tokenId] = to]
        /\ last' = [op |-> "approve", sender |-> ownerOf(nftAddress, tokenId),
                    nftAddress |-> nftAddress, tokenId |-> tokenId, amount |-> 0,
                    err |-> OK, event |-> NoEvent, paid |-> 0,
                    seller |-> ZERO]
        /\ UNCHANGED <<s_listings, s_proceeds, nftOwner, balance, stack, emitted>>

\* The owner of a token transfers it outside the marketplace
\* (IERC721.transferFrom), which clears the token's approval.
TransferFrom ==
    \E nftAddress \in NftAddresses, tokenId \in TokenIds, to \in Users :
        /\ to # ownerOf(nftAddress, tokenId)
        /\ nftOwner' = [nftOwner EXCEPT ![nftAddress][tokenId] = to]
        /\ nftApproved' = [nftApproved EXCEPT ![nftAddress][tokenId] = ZERO]
        /\ last' = [op |-> "transferFrom", sender |-> ownerOf(nftAddress, tokenId),
                    nftAddress |-> nftAddress, tokenId |-> tokenId, amount |-> 0,
                    err |-> OK, event |-> NoEvent, paid |-> 0,
                    seller |-> ZERO]
        /\ UNCHANGED <<s_listings, s_proceeds, balance, stack, emitted>>

\* After deployment: no listings, no proceeds; the deployer has minted the
\* tokens and nothing is approved yet.
Init ==
    /\ s_listings  = [a \in NftAddresses |-> [t \in TokenIds |-> EmptyListing]]
    /\ s_proceeds  = [a \in Addresses |-> 0]
    /\ nftOwner    = [a \in NftAddresses |-> [t \in TokenIds |-> "deployer"]]
    /\ nftApproved = [a \in NftAddresses |-> [t \in TokenIds |-> ZERO]]
    /\ balance     = 0
    /\ last = [op |-> "constructor", sender |-> "deployer", nftAddress |-> ZERO,
               tokenId |-> 0, amount |-> 0, err |-> OK, event |-> NoEvent,
               paid |-> 0, seller |-> ZERO]
    /\ stack = <<>>
    /\ emitted = NotRecorded

Next ==
    \/ ListItem
    \/ BuyItem
    \/ CancelListing
    \/ UpdateListing
    \/ WithdrawProceeds
    \/ Approve
    \/ TransferFrom

Spec == Init /\ [][Next]_vars

(***************************************************************************)
(* Re-entrancy.  buyItem hands control to the buyer inside                 *)
(* nft.safeTransferFrom (onERC721Received) and withdrawProceeds hands      *)
(* control to the caller inside the low-level call that pays it.  While a  *)
(* call is suspended there, the marketplace can be called again.  A call   *)
(* whose callback makes it revert undoes everything done inside it and is  *)
(* the reverting call of the actions above; the actions below are the      *)
(* calls whose callback returns normally.                                  *)
(***************************************************************************)
buyItemBeforeCallback_listingKept(sender, nftAddress, tokenId, value) ==
    [buyItem(sender, nftAddress, tokenId, value, TRUE).st
        EXCEPT !.listings = s_listings]

\* the store when safeTransferFrom calls the buyer: seller credited,
\* listing deleted, token transferred
buyItemBeforeCallback(sender, nftAddress, tokenId, value) ==
    buyItem(sender, nftAddress, tokenId, value, TRUE).st

withdrawBeforeCallback_notZeroed(sender) ==
    [withdrawProceeds(sender, TRUE).st EXCEPT !.proceeds = s_proceeds]

\* the store when the payout calls the caller: balance zeroed, ether sent
withdrawBeforeCallback(sender) ==
    withdrawProceeds(sender, TRUE).st

Enter(st, frame, rec) ==
    /\ Len(stack) < MaxDepth
    /\ s_listings'  = st.listings
    /\ s_proceeds'  = st.proceeds
    /\ nftOwner'    = st.owner
    /\ nftApproved' = st.approved
    /\ balance'     = st.balance
    /\ stack' = Append(stack, frame)
    /\ last' = rec
    /\ UNCHANGED emitted

\* buyItem up to the callback of the token transfer
BuyItemEnter ==
    \E sender \in Users, nftAddress \in NftAddresses, tokenId \in TokenIds,
       value \in Values :
        /\ balance + value <= MaxBalance
        /\ buyItem(sender, nftAddress, tokenId, value, TRUE).err = OK
        /\ Enter(buyItemBeforeCallback(sender, nftAddress, tokenId, value),
                 [op |-> "buyItem", sender |-> sender, nftAddress |-> nftAddress,
                  tokenId |-> tokenId,
                  price |-> s_listings[nftAddress][tokenId].price],
                 [op |-> "buyItem", sender |-> sender, nftAddress |-> nftAddress,
                  tokenId |-> tokenId, amount |-> value, err |-> Pending,
                  event |-> NoEvent, paid |-> 0,
                  seller |-> s_listings[nftAddress][tokenId].seller])

\* withdrawProceeds up to the callback of the payout
WithdrawProceedsEnter ==
    \E sender \in Users :
        /\ withdrawProceeds(sender, TRUE).err = OK
        /\ Enter(withdrawBeforeCallback(sender),
                 [op |-> "withdrawProceeds", sender |-> sender,
                  nftAddress |-> ZERO, tokenId |-> 0, price |-> 0],
                 [op |-> "withdrawProceeds", sender |-> sender,
                  nftAddress |-> ZERO, tokenId |-> 0, amount |-> 0,
                  err |-> Pending, event |-> NoEvent,
                  paid |-> withdrawProceeds(sender, TRUE).paid,
                  seller |-> ZERO])

\* the callback of the innermost suspended call returns and the call
\* completes: buyItem emits ItemBought, withdrawProceeds returns
Return ==
    /\ stack # <<>>
    /\ LET frame == stack[Len(stack)] IN
       last' = [op |-> frame.op, sender |-> frame.sender,
                nftAddress |-> frame.nftAddress, tokenId |-> frame.tokenId,
                amount |-> 0, err |-> OK,
                event |-> IF frame.op = "buyItem"
                          THEN ItemBought(frame.sender, frame.nftAddress,
                                          frame.tokenId, frame.price)
                          ELSE NoEvent,
                paid |-> 0, seller |-> ZERO]
    /\ stack' = SubSeq(stack, 1, Len(stack) - 1)
    /\ emitted' = emit(last'.event)
    /\ UNCHANGED store

\* The re-entrant behaviours are explored for the calls that concern the
\* tokens in ReentrantTokenIds.
ReentrantTokenIds == {0}

InScope == last'.tokenId \in ReentrantTokenIds

NextReentrant ==
    \/ ListItem /\ InScope
    \/ BuyItem /\ InScope
    \/ CancelListing /\ InScope
    \/ UpdateListing /\ InScope
    \/ WithdrawProceeds /\ InScope
    \/ Approve /\ InScope
    \/ TransferFrom /\ InScope
    \/ BuyItemEnter /\ InScope
    \/ WithdrawProceedsEnter /\ InScope
    \/ Return /\ InScope

SpecReentrant == Init /\ [][NextReentrant]_vars

(***************************************************************************)
(* The event log.  The behaviours below are those of the atomic calls,     *)
(* with the last event of each item recorded from deployment on, explored  *)
(* for the calls that concern the tokens in LoggedTokenIds.                *)
(***************************************************************************)
InitLogged ==
    /\ s_listings  = [a \in NftAddresses |-> [t \in TokenIds |-> EmptyListing]]
    /\ s_proceeds  = [a \in Addresses |-> 0]
    /\ nftOwner    = [a \in NftAddresses |-> [t \in TokenIds |-> "deployer"]]
    /\ nftApproved = [a \in NftAddresses |-> [t \in TokenIds |-> ZERO]]
    /\ balance     = 0
    /\ last = [op |-> "constructor", sender |-> "deployer", nftAddress |-> ZERO,
               tokenId |-> 0, amount |-> 0, err |-> OK, event |-> NoEvent,
               paid |-> 0, seller |-> ZERO]
    /\ stack = <<>>
    /\ emitted = [a \in NftAddresses |-> [t \in TokenIds |-> NoEvent]]

LoggedTokenIds == {0}

InLog == last'.tokenId \in LoggedTokenIds

NextLogged ==
    \/ ListItem /\ InLog
    \/ BuyItem /\ InLog
    \/ CancelListing /\ InLog
    \/ UpdateListing /\ InLog
    \/ WithdrawProceeds /\ InLog
    \/ Approve /\ InLog
    \/ TransferFrom /\ InLog

SpecLogged == InitLogged /\ [][NextLogged]_vars

TypeOK ==
    /\ s_listings \in [NftAddresses -> [TokenIds -> [price : Amounts, seller : Addresses]]]
    /\ s_proceeds \in [Addresses -> 0..MaxBalance]
    /\ nftOwner \in [NftAddresses -> [TokenIds -> Users]]
    /\ nftApproved \in [NftAddresses -> [TokenIds -> Addresses]]
    /\ balance \in 0..MaxBalance


(***************************************************************************)
(* Properties.  In an action formula, unprimed variables are the state     *)
(* before the call and last' is the record of the call.                    *)
(***************************************************************************)
priceBefore(c) == s_listings[c.nftAddress][c.tokenId].price

sellerBefore(c) == s_listings[c.nftAddress][c.tokenId].seller

ownerBefore(c) == ownerOf(c.nftAddress, c.tokenId)

approvedBefore(c) == getApproved(c.nftAddress, c.tokenId)

\* what getListing, ownerOf and getProceeds return after the call
listingAfter(c) == s_listings'[c.nftAddress][c.tokenId]

ownerAfter(c) == nftOwner'[c.nftAddress][c.tokenId]

proceedsAfter(a) == s_proceeds'[a]

\* C1: when the owner of an item that is not listed (stored price 0) calls
\* listItem with a price > 0 while the marketplace is the approved address
\* of the item, the call succeeds and getListing then returns the submitted
\* price and the caller as seller.
C1_ListThenGet ==
    [][LET c == last' IN
       (/\ c.op = "listItem"
        /\ priceBefore(c) = 0
        /\ c.sender = ownerBefore(c)
        /\ c.amount > 0
        /\ approvedBefore(c) = MARKET)
       => /\ c.err = OK
          /\ listingAfter(c) = [price |-> c.amount, seller |-> c.sender]]_vars

C1_Witness ==
    /\ last.op = "listItem"
    /\ last.err = OK
    /\ last.amount > 0
    /\ getListing(last.nftAddress, last.tokenId)
         = [price |-> last.amount, seller |-> last.sender]

\* C2: listItem on an item that is already listed (stored price > 0) fails
\* with AlreadyListed for every caller and every price, and nothing changes.
C2_AlreadyListed ==
    [][LET c == last' IN
       (c.op = "listItem" /\ priceBefore(c) > 0)
       => (c.err = AlreadyListed /\ UNCHANGED store)]_vars

C2_Witness ==
    /\ last.op = "listItem"
    /\ last.err = AlreadyListed
    /\ last.sender # ownerOf(last.nftAddress, last.tokenId)
    /\ getListing(last.nftAddress, last.tokenId).price > 0

\* C3: buyItem on an item with no active listing (stored price 0) fails with
\* NotListed for every caller and every payment, and nothing changes.
C3_BuyAbsentNotListed ==
    [][LET c == last' IN
       (c.op = "buyItem" /\ priceBefore(c) = 0)
       => (c.err = NotListed /\ UNCHANGED store)]_vars

\* C4: after a successful buyItem with payment p the listing is absent, the
\* seller's proceeds grew by exactly p (also when p exceeds the price), and
\* the buyer owns the item.
C4_BuyEffect ==
    [][LET c == last' IN
       (c.op = "buyItem" /\ c.err = OK)
       => /\ listingAfter(c).price = 0
          /\ proceedsAfter(sellerBefore(c)) = getProceeds(sellerBefore(c)) + c.amount
          /\ ownerAfter(c) = c.sender]_vars

\* a purchase that paid more than the listed price
C4_Witness ==
    /\ last.op = "buyItem"
    /\ last.err = OK
    /\ last.event.name = "ItemBought"
    /\ last.event.price > 0
    /\ last.amount > last.event.price
    /\ ownerOf(last.nftAddress, last.tokenId) = last.sender

\* C5: withdrawProceeds by a caller with balance b > 0, when it succeeds,
\* pays exactly b and leaves the caller's balance 0; by a caller with
\* balance 0 (so also right after a successful withdrawal) it fails with
\* NoProceeds and pays nothing.
C5_Withdraw ==
    [][LET c == last' IN
       c.op = "withdrawProceeds"
       => /\ (getProceeds(c.sender) > 0 /\ c.err = OK)
               => /\ c.paid = getProceeds(c.sender)
                  /\ balance' = balance - getProceeds(c.sender)
                  /\ proceedsAfter(c.sender) = 0
          /\ getProceeds(c.sender) = 0
               => (c.err = NoProceeds /\ c.paid = 0 /\ UNCHANGED store)
          /\ (last.op = "withdrawProceeds" /\ last.err = OK
                /\ last.sender = c.sender)
               => c.err = NoProceeds]_vars

C5_Witness ==
    /\ last.op = "withdrawProceeds"
    /\ last.err = OK
    /\ last.paid > 0
    /\ getProceeds(last.sender) = 0

\* C6: updateListing by the owner of an item with no active listing fails
\* with NotListed and the item stays absent.
C6_UpdateAbsentNotListed ==
    [][LET c == last' IN
       (/\ c.op = "updateListing"
        /\ c.sender = ownerBefore(c)
        /\ priceBefore(c) = 0)
       => (c.err = NotListed /\ s_listings' = s_listings)]_vars

\* C7: cancelListing by the owner of an item with no active listing fails
\* with NotListed, emits no event and changes nothing.
C7_CancelAbsentNotListed ==
    [][LET c == last' IN
       (/\ c.op = "cancelListing"
        /\ c.sender = ownerBefore(c)
        /\ priceBefore(c) = 0)
       => (c.err = NotListed /\ c.event = NoEvent /\ UNCHANGED store)]_vars

\* C8: listItem on an unlisted item, cancelListing and updateListing fail
\* with NotOwner and change nothing when the caller is not the item's
\* current owner, also when the caller is the item's approved address.
C8_OnlyOwner ==
    [][LET c == last' IN
       (/\ \/ c.op = "listItem" /\ priceBefore(c) = 0
           \/ c.op = "cancelListing"
           \/ c.op = "updateListing"
        /\ c.sender # ownerBefore(c))
       => (c.err = NotOwner /\ UNCHANGED store)]_vars

\* a rejected cancelListing of a listed item by its approved address
C8_Witness ==
    /\ last.op = "cancelListing"
    /\ last.err = NotOwner
    /\ last.sender = getApproved(last.nftAddress, last.tokenId)
    /\ getListing(last.nftAddress, last.tokenId).price > 0

\* C9: listItem by the owner on an unlisted item with a price > 0 fails with
\* NotApprovedForMarketplace and creates no listing when the item's approved
\* address is not the marketplace.
C9_NeedsApproval ==
    [][LET c == last' IN
       (/\ c.op = "listItem"
        /\ priceBefore(c) = 0
        /\ c.sender = ownerBefore(c)
        /\ c.amount > 0
        /\ approvedBefore(c) # MARKET)
       => (c.err = NotApprovedForMarketplace /\ UNCHANGED store)]_vars

\* the approval was given to another identity
C9_Witness ==
    /\ last.op = "listItem"
    /\ last.err = NotApprovedForMarketplace
    /\ getApproved(last.nftAddress, last.tokenId) \in Users

\* C10: buyItem on a listed item with a payment below the price fails with
\* PriceNotMet and changes nothing; a payment equal to the price passes the
\* price check (the call succeeds unless the token transfer reverts).
C10_PriceNotMet ==
    [][LET c == last' IN
       (c.op = "buyItem" /\ priceBefore(c) > 0)
       => /\ c.amount < priceBefore(c)
               => (c.err = PriceNotMet /\ UNCHANGED store)
          /\ c.amount = priceBefore(c)
               => c.err \in {OK, ERC721Revert}]_vars

\* a purchase at exactly the listed price
C10_Witness ==
    /\ last.op = "buyItem"
    /\ last.err = OK
    /\ last.event.price > 0
    /\ last.amount = last.event.price

\* C11: every successful updateListing takes the item from Listed to
\* Listed: afterwards the stored price is newPrice, the seller is the one
\* stored before, and the item is still an active listing (price > 0).
C11_UpdateKeepsListed ==
    [][LET c == last' IN
       (c.op = "updateListing" /\ c.err = OK)
       => /\ priceBefore(c) > 0
          /\ listingAfter(c).price = c.amount
          /\ listingAfter(c).seller = sellerBefore(c)
          /\ listingAfter(c).price > 0]_vars

\* C12: a successful cancelListing by the owner of a listed item resets the
\* item's listing to absent and leaves every other listing, every proceeds
\* balance and the item's ownership unchanged.
C12_CancelFrame ==
    [][LET c == last' IN
       (c.op = "cancelListing" /\ c.err = OK /\ priceBefore(c) > 0)
       => /\ listingAfter(c).price = 0
          /\ \A a \in NftAddresses, t \in TokenIds :
               <<a, t>> # <<c.nftAddress, c.tokenId>>
                 => s_listings'[a][t] = s_listings[a][t]
          /\ UNCHANGED <<s_proceeds, nftOwner, balance>>]_vars

\* a cancelled item next to an item that is still listed
C12_Witness ==
    /\ last.op = "cancelListing"
    /\ last.err = OK
    /\ last.event.name = "ItemCanceled"
    /\ getListing(last.nftAddress, last.tokenId).price = 0
    /\ \E t \in TokenIds : getListing(last.nftAddress, t).price > 0

\* C13: the proceeds balance of an identity decreases only in a successful
\* withdrawProceeds call made by that identity.
C13_OnlyOwnerDrains ==
    [][\A a \in Addresses :
         s_proceeds'[a] < s_proceeds[a]
           => /\ last'.op = "withdrawProceeds"
              /\ last'.sender = a
              /\ last'.err = OK]_vars

\* a withdrawal made while another identity holds proceeds
C13_Witness ==
    /\ last.op = "withdrawProceeds"
    /\ last.err = OK
    /\ last.paid > 0
    /\ \E a \in Users \ {last.sender} : getProceeds(a) > 0

\* C14: a buyItem whose payment covers the price but whose token transfer
\* cannot go through (the seller is no longer the owner, or the marketplace
\* is no longer approved) fails and changes nothing.
C14_BuyAllOrNothing ==
    [][LET c == last' IN
       (/\ c.op = "buyItem"
        /\ priceBefore(c) > 0
        /\ c.amount >= priceBefore(c)
        /\ \/ ownerBefore(c) # sellerBefore(c)
           \/ approvedBefore(c) # MARKET)
       => (c.err = ERC721Revert /\ UNCHANGED store)]_vars

\* a paid purchase of a listing whose seller has given the token away
C14_Witness ==
    /\ last.op = "buyItem"
    /\ last.err = ERC721Revert
    /\ getListing(last.nftAddress, last.tokenId).price > 0
    /\ last.amount >= getListing(last.nftAddress, last.tokenId).price
    /\ getListing(last.nftAddress, last.tokenId).seller \in Users
    /\ ownerOf(last.nftAddress, last.tokenId)
         # getListing(last.nftAddress, last.tokenId).seller

\* C17: every item is Absent or Listed(price, seller): a stored price of 0
\* goes with no seller and a stored price > 0 with a seller that is not the
\* null identity.
C17_AbsentOrListed ==
    \A a \in NftAddresses, t \in TokenIds :
        /\ getListing(a, t).price = 0 => getListing(a, t).seller = ZERO
        /\ getListing(a, t).price > 0 => getListing(a, t).seller # ZERO

\* C18: a withdrawProceeds of a positive balance either succeeds or fails
\* with TransferFailed, and when it fails nothing is paid and the caller's
\* balance is the same positive amount as before.
C18_FailedPayoutRestored ==
    [][LET c == last' IN
       (c.op = "withdrawProceeds" /\ getProceeds(c.sender) > 0)
       => /\ c.err \in {OK, TransferFailed}
          /\ c.err = TransferFailed
               => /\ c.paid = 0
                  /\ UNCHANGED store
                  /\ proceedsAfter(c.sender) = getProceeds(c.sender)]_vars

C18_Witness ==
    /\ last.op = "withdrawProceeds"
    /\ last.err = TransferFailed
    /\ last.paid = 0
    /\ getProceeds(last.sender) > 0
    /\ balance >= getProceeds(last.sender)

RECURSIVE SumProceeds(_, _)
SumProceeds(proceedsMap, S) ==
    IF S = {} THEN 0
    ELSE LET a == CHOOSE x \in S : TRUE
         IN  proceedsMap[a] + SumProceeds(proceedsMap, S \ {a})

\* C20: between calls the ether held by the marketplace equals the sum of
\* all proceeds balances.
C20_EscrowConservation ==
    balance = SumProceeds(s_proceeds, Addresses)

\* both users hold proceeds
C20_Witness ==
    /\ balance > 0
    /\ \A a \in Users : getProceeds(a) > 0
    /\ balance = SumProceeds(s_proceeds, Addresses)

(***************************************************************************)
(* Properties of the re-entrant behaviours (SpecReentrant).                *)
(***************************************************************************)
\* what the call c credits to / pays out to the identity a
creditedBy(c, a) ==
    IF c.op = "buyItem" /\ c.err \in {OK, Pending} /\ c.seller = a
    THEN c.amount ELSE 0

paidBy(c, a) ==
    IF c.op = "withdrawProceeds" /\ c.sender = a THEN c.paid ELSE 0

\* C15: when buyItem hands control to the buyer, the purchased listing is
\* already absent and the seller already credited; a buyItem made while a
\* buyItem is suspended in its callback is rejected and changes nothing; so
\* every credit to a seller is made by one buyItem outside any suspended
\* buyItem, which credits exactly its payment to the stored seller and
\* removes the listing in the same step.
C15_BuyReentrancy ==
    [][LET c == last' IN
       /\ (c.op = "buyItem" /\ c.err = Pending)
            => /\ listingAfter(c) = EmptyListing
               /\ proceedsAfter(c.seller) = getProceeds(c.seller) + c.amount
               /\ ownerAfter(c) = c.sender
       /\ (c.op = "buyItem" /\ entered
             /\ Len(stack') >= Len(stack))     \* a call, not a return
            => (c.err = ReentrantCall /\ UNCHANGED store)
       /\ \A a \in Addresses :
            s_proceeds'[a] > s_proceeds[a]
              => /\ c.op = "buyItem"
                 /\ c.err \in {OK, Pending}
                 /\ ~entered
                 /\ a = sellerBefore(c)
                 /\ s_proceeds'[a] = s_proceeds[a] + c.amount
                 /\ listingAfter(c) = EmptyListing
                 /\ \A b \in Addresses \ {a} : s_proceeds'[b] = s_proceeds[b]]_vars

\* the buyer's callback tried to buy again and was rejected
C15_Witness ==
    /\ stack # <<>>
    /\ stack[Len(stack)].op = "buyItem"
    /\ last.op = "buyItem"
    /\ last.err = ReentrantCall
    /\ last.sender = stack[Len(stack)].sender
    /\ getListing(last.nftAddress, last.tokenId).price = 0

\* C16: when withdrawProceeds hands control to the caller, the caller's
\* balance is already 0 and exactly the old balance has been paid, so a
\* withdrawProceeds made by the recipient at that point fails with
\* NoProceeds; and in every step, for every identity, the balance changes
\* by what the step credits minus what it pays out, and the payout is at
\* most the balance - so the total paid out to an identity never exceeds the
\* total credited to it.
C16_WithdrawReentrancy ==
    [][LET c == last' IN
       /\ (c.op = "withdrawProceeds" /\ c.err = Pending)
            => /\ proceedsAfter(c.sender) = 0
               /\ c.paid = getProceeds(c.sender)
               /\ balance' = balance - c.paid
       /\ (/\ last.op = "withdrawProceeds" /\ last.err = Pending
           /\ Len(stack') >= Len(stack)       \* a call, not a return
           /\ c.op = "withdrawProceeds" /\ c.sender = last.sender)
            => (c.err = NoProceeds /\ c.paid = 0 /\ UNCHANGED store)
       /\ \A a \in Addresses :
            /\ paidBy(c, a) <= s_proceeds[a]
            /\ s_proceeds'[a] = s_proceeds[a] + creditedBy(c, a) - paidBy(c, a)]_vars

\* the recipient's callback tried to withdraw again and was rejected
C16_Witness ==
    /\ stack # <<>>
    /\ stack[Len(stack)].op = "withdrawProceeds"
    /\ last.op = "withdrawProceeds"
    /\ last.err = NoProceeds
    /\ last.sender = stack[Len(stack)].sender

\* C21: the event log mirrors the listing state: an item is listed with
\* (price, seller) if and only if the last event emitted for it is
\* ItemListed carrying that price and that seller, it is absent if and only
\* if no event was emitted for it or the last one is ItemCanceled or
\* ItemBought, and a failed call emits no event.
C21_EventLogMirrorsListings ==
    /\ \A nftAddress \in NftAddresses, tokenId \in TokenIds :
          LET listing == getListing(nftAddress, tokenId)
              event   == emitted[nftAddress][tokenId]
          IN  /\ listing.price > 0
                 <=> /\ event.name = "ItemListed"
                     /\ event.price = listing.price
                     /\ event.who = listing.seller
              /\ listing.price = 0
                 <=> event.name \in {"none", "ItemCanceled", "ItemBought"}
    /\ last.err # OK => last.event = NoEvent

=============================================================================
